---- MODULE Spec2Model ----
(***************************************************************************)
(* Model of inspire_schemas/builders/authors.py: the AuthorBuilder class.  *)
(* The state is the record under construction (self.obj); every public     *)
(* method of the builder is one action.  Python values are tagged records  *)
(* so that None, strings, booleans, lists and dicts can live side by side. *)
(***************************************************************************)
EXTENDS Integers, Sequences, FiniteSets, TLC

VARIABLES obj,        \* self.obj, a Python dict: a function from keys to values
          last,       \* the last call: its name, arguments, exception, and what it handed to _append_to
          log,        \* per field, the non-empty elements handed to _append_to by calls that returned
          hist,       \* the calls of the name operations so far, in order
          remaining   \* calls the caller still makes

vars == <<obj, last, log, hist, remaining>>

(***************************** bounds **************************************)
MaxCalls == 2
MaxNameCalls == 3
MaxSeedCalls == 1

(************************** Python values **********************************)
None == [t |-> "None"]
Str(s) == [t |-> "str", s |-> s]
Bool(b) == [t |-> "bool", b |-> b]
List(items) == [t |-> "list", items |-> items]
Dict(d) == [t |-> "dict", d |-> d]

EmptyMap == [k \in {} |-> None]

\* d[k] = v on a Python dict (the key is created or overwritten)
Put(d, k, v) == (k :> v) @@ d

\* Python truthiness, as used by "if start_date:" and the like
Truthy(v) ==
    CASE v.t = "None" -> FALSE
      [] v.t = "str"  -> v.s # ""
      [] v.t = "bool" -> v.b
      [] v.t = "list" -> v.items # <<>>
      [] v.t = "dict" -> DOMAIN v.d # {}

\* inspire_schemas.utils.EMPTIES
EMPTIES == {None, Str(""), List(<<>>), Dict(EmptyMap)}

(********************** the module's name space ****************************)
\* The names bound at module level in authors.py (imports and the class).
ModuleGlobals ==
    [n \in {"absolute_import", "division", "print_function", "normalize_date",
            "force_list", "normalize_name", "EMPTIES", "AuthorBuilder"}
        |-> Str(n)]

\* Whether a name used in a method body resolves: a parameter or local of
\* the method, or a module global.  Otherwise Python raises NameError.
Resolves(n, locals) == n \in locals \/ n \in DOMAIN ModuleGlobals

(********************** external collaborators *****************************)
\* inspire_utils.name.normalize_name on the names the model uses
normalize_name(v) ==
    CASE v = Str("Jane Doe")   -> Str("Doe, Jane")
      [] v = Str("John Smith") -> Str("Smith, John")
      [] OTHER                 -> v

\* inspire_utils.date.normalize_date on the dates the model uses
normalize_date(v) ==
    CASE v = Str("2020")       -> Str("2020")
      [] v = Str("2021-5-3")   -> Str("2021-05-03")
      [] OTHER                 -> v

\* inspire_utils.helpers.force_list
force_list(v) ==
    CASE v.t = "None" -> List(<<>>)
      [] v.t = "list" -> v
      [] OTHER        -> List(<<v>>)

(*************************** call results **********************************)
NoCall == <<>>
Returns(o, call) == [obj |-> o, exc |-> "none", call |-> call]
Raises(o, e, call) == [obj |-> o, exc |-> e, call |-> call]

(***************************** _append_to *********************************)
\* dict.setdefault(field, [])
setdefault(o, field, dflt) == IF field \in DOMAIN o THEN o ELSE Put(o, field, dflt)

\* A seeded fault: the field is created before the emptiness test.
AppendToCreatesFirst(o, field, element) ==
    LET o1 == setdefault(o, field, List(<<>>))
    IN  IF element \in EMPTIES THEN Returns(o1, <<field, element>>)
        ELSE IF o1[field].t = "list"
             THEN Returns(Put(o1, field, List(Append(o1[field].items, element))),
                          <<field, element>>)
             ELSE Raises(o1, "AttributeError", <<field, element>>)

\* A seeded fault: elements already present are not appended again.
AppendToDedups(o, field, element) ==
    IF element \in EMPTIES THEN Returns(o, <<field, element>>)
    ELSE LET o1 == setdefault(o, field, List(<<>>))
         IN  IF o1[field].t # "list" THEN Raises(o1, "AttributeError", <<field, element>>)
             ELSE IF \E i \in 1..Len(o1[field].items) : o1[field].items[i] = element
                  THEN Returns(o1, <<field, element>>)
                  ELSE Returns(Put(o1, field, List(Append(o1[field].items, element))),
                               <<field, element>>)

\* A seeded fault: nothing is tested, every element is appended.
AppendToNoTest(o, field, element) ==
    LET o1 == setdefault(o, field, List(<<>>))
    IN  IF o1[field].t = "list"
        THEN Returns(Put(o1, field, List(Append(o1[field].items, element))),
                     <<field, element>>)
        ELSE Raises(o1, "AttributeError", <<field, element>>)

\* A seeded fault: the field is replaced by a fresh list holding the element.
AppendToOverwrites(o, field, element) ==
    IF element \in EMPTIES THEN Returns(o, <<field, element>>)
    ELSE Returns(Put(o, field, List(<<element>>)), <<field, element>>)

\* AuthorBuilder._append_to: nothing for an empty element; otherwise the
\* field is created if absent and the element appended.  Only a list has
\* .append: any other value already stored at the field raises
\* AttributeError (setdefault has then changed nothing).
_append_to(o, field, element) ==
    IF element \in EMPTIES THEN Returns(o, <<field, element>>)
    ELSE LET o1 == setdefault(o, field, List(<<>>))
         IN  IF o1[field].t = "list"
             THEN Returns(Put(o1, field, List(Append(o1[field].items, element))),
                          <<field, element>>)
             ELSE Raises(o1, "AttributeError", <<field, element>>)

(************************* name operations *********************************)
\* AuthorBuilder.set_name
set_name(o, a) ==
    _append_to(o, "name", Dict(Put(EmptyMap, "value", normalize_name(a.value))))

\* AuthorBuilder.set_display_name
set_display_name(o, a) ==
    _append_to(o, "name", Dict(Put(EmptyMap, "preferred_name", a.name)))

\* "name in self.obj": a string is looked up among the keys of the record;
\* None and booleans are hashable and are no key of it; a list or a dict is
\* unhashable.
InRecord(v, o) ==
    CASE v.t = "str"            -> IF v.s \in DOMAIN o THEN "yes" ELSE "no"
      [] v.t \in {"None", "bool"} -> "no"
      [] OTHER                  -> "TypeError"

\* "'native_names' in self.obj['name']" followed by the branch it selects,
\* for the value nm stored at self.obj['name'].
\*   dict: a key test; then either .append on the stored value, or the
\*         comparison self.obj['name']['native_names'] == [name], whose
\*         subscript raises KeyError as the key is absent;
\*   list: a membership test; in both branches the subscript of a list by a
\*         string raises TypeError;
\*   str:  a substring test; in both branches the subscript raises TypeError;
\*   None, bool: the "in" test itself raises TypeError.
NativeNameIntoExisting(o, nm, name) ==
    CASE nm.t = "dict" ->
           IF "native_names" \in DOMAIN nm.d
           THEN LET nn == nm.d["native_names"]
                IN  IF nn.t = "list"
                    THEN Returns(Put(o, "name",
                                     Dict(Put(nm.d, "native_names",
                                              List(Append(nn.items, name))))),
                                 NoCall)
                    ELSE Raises(o, "AttributeError", NoCall)
           ELSE Raises(o, "KeyError", NoCall)
      [] OTHER -> Raises(o, "TypeError", NoCall)

\* AuthorBuilder.add_native_name
add_native_name(o, a) ==
    CASE InRecord(a.name, o) = "TypeError" -> Raises(o, "TypeError", NoCall)
      [] InRecord(a.name, o) = "yes" ->
           IF "name" \in DOMAIN o
           THEN NativeNameIntoExisting(o, o["name"], a.name)
           ELSE Raises(o, "KeyError", NoCall)
      [] OTHER ->
           _append_to(o, "name",
                      Dict(Put(EmptyMap, "native_names", List(<<a.name>>))))

(************************ scalar and link operations ***********************)
\* AuthorBuilder.add_email_address
add_email_address(o, a) == _append_to(o, "email_addresses", a.email)

\* AuthorBuilder.set_status
set_status(o, a) == _append_to(o, "status", a.status)

\* AuthorBuilder.add_url
add_url(o, a) ==
    _append_to(o, "urls",
               Dict(Put(Put(EmptyMap, "value", a.value), "description", a.description)))

\* AuthorBuilder.add_blog
add_blog(o, a) ==
    _append_to(o, "urls",
               Dict(Put(Put(EmptyMap, "value", a.url), "description", Str("blog"))))

\* AuthorBuilder.add_linkedin
add_linkedin(o, a) ==
    _append_to(o, "ids",
               Dict(Put(Put(EmptyMap, "value", a.url), "schema", Str("LINKEDIN"))))

\* AuthorBuilder.add_twitter
add_twitter(o, a) ==
    _append_to(o, "ids",
               Dict(Put(Put(EmptyMap, "value", a.url), "schema", Str("TWITTER"))))

\* AuthorBuilder.add_research_field
add_research_field(o, a) == _append_to(o, "arxiv_categories", a.category)

\* AuthorBuilder.add_comment
add_comment(o, a) ==
    _append_to(o, "_private_notes",
               Dict(Put(Put(EmptyMap, "value", a.comment), "source", a.source)))

(********************** institution, project, advisor **********************)
\* "if x: d[key] = value"
PutIf(d, x, key, value) == IF Truthy(x) THEN Put(d, key, value) ELSE d

Locals_add_institution ==
    {"self", "institution", "start_date", "end_date", "rank", "record",
     "curated", "current", "new_institution"}

\* The entry add_institution has built when it reaches "if record:".
InstitutionUpToRank(a) ==
    LET e0 == Put(EmptyMap, "institution", a.institution)
        e1 == PutIf(e0, a.start_date, "start_date", normalize_date(a.start_date))
        e2 == PutIf(e1, a.end_date, "end_date", normalize_date(a.end_date))
    IN  PutIf(e2, a.rank, "rank", a.rank)

InstitutionFlags(e, a) ==
    Put(Put(e, "curated_relation", a.curated), "current", a.current)

\* A seeded fault: the entry is appended before "if record:" is reached.
AddInstitutionAppendsEarly(o, a) ==
    LET r == _append_to(o, "positions", Dict(InstitutionUpToRank(a)))
    IN  IF Truthy(a.record) /\ ~Resolves("new_instituion", Locals_add_institution)
        THEN Raises(r.obj, "NameError", r.call)
        ELSE _append_to(o, "positions", Dict(InstitutionFlags(InstitutionUpToRank(a), a)))

\* AuthorBuilder.add_institution.  With a truthy record, line 197 assigns
\* into new_instituion, a name bound nowhere: NameError, before anything is
\* appended.  (Were the name bound at module level, the assignment would go
\* to that object and the entry would still lack the key.)
add_institution(o, a) ==
    IF Truthy(a.record) /\ ~Resolves("new_instituion", Locals_add_institution)
    THEN Raises(o, "NameError", NoCall)
    ELSE _append_to(o, "positions", Dict(InstitutionFlags(InstitutionUpToRank(a), a)))

Locals_add_project ==
    {"self", "name", "record", "start_date", "end_date", "curated", "current",
     "new_experiment"}

\* AuthorBuilder.add_project.  Line 224 reads institution, which is neither
\* a parameter, nor a local, nor a module global: NameError on every call.
add_project(o, a) ==
    IF ~Resolves("institution", Locals_add_project)
    THEN Raises(o, "NameError", NoCall)
    ELSE LET e0 == Put(EmptyMap, "institution", ModuleGlobals["institution"])
             e1 == PutIf(e0, a.start_date, "start_date", normalize_date(a.start_date))
             e2 == PutIf(e1, a.end_date, "end_date", normalize_date(a.end_date))
             e3 == PutIf(e2, a.record, "record", a.record)
             e4 == Put(Put(e3, "curated_relation", a.curated), "current", a.current)
         IN  _append_to(o, "project_membership", Dict(e4))

\* AuthorBuilder.add_advisor
add_advisor(o, a) ==
    LET e0 == Put(EmptyMap, "name", normalize_name(a.name))
        e1 == PutIf(e0, a.ids, "ids", force_list(a.ids))
        e2 == PutIf(e1, a.degree_type, "degree_type", a.degree_type)
        e3 == PutIf(e2, a.record, "record", a.record)
        e4 == Put(e3, "curated_relation", a.curated)
    IN  _append_to(o, "advisors", Dict(e4))

(***************************** inputs **************************************)
Fields ==
    {"name", "email_addresses", "status", "urls", "ids", "arxiv_categories",
     "positions", "project_membership", "advisors", "_private_notes"}

NameInputs == {Str("Jane Doe"), Str("John Smith")}
DisplayNameInputs == {Str("Jane")}
\* "name" and "urls" are strings that may also be keys of the record
NativeNameInputs == {Str("Jeanne"), Str("name"), Str("urls")}
EmailInputs == {None, Str(""), List(<<>>), Dict(EmptyMap), Str("jane@cern.ch")}
StatusInputs == {None, Str(""), List(<<>>), Dict(EmptyMap), Str("active")}
CategoryInputs == {None, Str(""), List(<<>>), Dict(EmptyMap), Str("hep-th")}
UrlInputs == {Str("http://x.test")}
DescriptionInputs == {None, Str("home")}
InstitutionInputs == {Str("CERN")}
ProjectInputs == {Str("ATLAS")}
StartDateInputs == {None, Str("2020")}
EndDateInputs == {None, Str("2021-5-3")}
RankInputs == {None, Str("PHD")}
RecordInputs == {None, Str("http://r.test/1")}
FlagInputs == {Bool(FALSE), Bool(TRUE)}
AdvisorInputs == {Str("John Smith")}
IdsInputs == {None, Str("X1"), List(<<Str("X1")>>)}
DegreeInputs == {None, Str("PhD")}
CommentInputs == {Str("note")}
SourceInputs == {None, Str("curator")}

\* Records a builder may be constructed from (AuthorBuilder(author)).
SeedRecords ==
    { EmptyMap,
      \* the shape this builder itself produces
      Put(Put(Put(EmptyMap,
          "name", List(<<Dict(Put(EmptyMap, "value", Str("Doe, Jane")))>>)),
          "email_addresses", List(<<Str("jane@cern.ch")>>)),
          "positions", List(<<Dict(Put(Put(Put(EmptyMap, "institution", Str("CERN")),
                                           "curated_relation", Bool(FALSE)),
                                       "current", Bool(TRUE)))>>)),
      \* name as a mapping holding native names; status as a scalar
      Put(Put(Put(EmptyMap,
          "name", Dict(Put(Put(EmptyMap, "value", Str("Doe, Jane")),
                           "native_names", List(<<Str("Jeanne")>>)))),
          "status", Str("active")),
          "urls", List(<<Dict(Put(Put(EmptyMap, "value", Str("http://x.test")),
                                  "description", None))>>)),
      \* name as a mapping without native names
      Put(EmptyMap, "name", Dict(Put(EmptyMap, "value", Str("Doe, Jane")))) }

(****************************** actions ************************************)
\* AuthorBuilder.__init__ over the record o, followed by budget calls.
Construct(o, budget) ==
    /\ obj = o
    /\ last = [op |-> "__init__", args |-> EmptyMap, exc |-> "none", call |-> NoCall]
    /\ log = [f \in Fields |-> <<>>]
    /\ hist = <<>>
    /\ remaining = budget

Logged(r) ==
    IF r.exc = "none" /\ r.call # NoCall /\ r.call[2] \notin EMPTIES
    THEN [log EXCEPT ![r.call[1]] = Append(@, r.call[2])]
    ELSE log

\* One call op(**a) with result r.
Do(op, a, r, isNameOp) ==
    /\ remaining' = remaining - 1
    /\ obj' = r.obj
    /\ last' = [op |-> op, args |-> a, exc |-> r.exc, call |-> r.call]
    /\ log' = Logged(r)
    /\ hist' = IF isNameOp THEN Append(hist, [op |-> op, args |-> a]) ELSE hist

SetName ==
    /\ remaining > 0
    /\ \E v \in NameInputs :
           LET a == [value |-> v] IN Do("set_name", a, set_name(obj, a), TRUE)

SetDisplayName ==
    /\ remaining > 0
    /\ \E n \in DisplayNameInputs :
           LET a == [name |-> n] IN Do("set_display_name", a, set_display_name(obj, a), TRUE)

AddNativeName ==
    /\ remaining > 0
    /\ \E n \in NativeNameInputs :
           LET a == [name |-> n] IN Do("add_native_name", a, add_native_name(obj, a), TRUE)

AddEmailAddress ==
    /\ remaining > 0
    /\ \E e \in EmailInputs :
           LET a == [email |-> e] IN Do("add_email_address", a, add_email_address(obj, a), FALSE)

SetStatus ==
    /\ remaining > 0
    /\ \E v \in StatusInputs :
           LET a == [status |-> v] IN Do("set_status", a, set_status(obj, a), FALSE)

AddUrl ==
    /\ remaining > 0
    /\ \E v \in UrlInputs, d \in DescriptionInputs :
           LET a == [value |-> v, description |-> d] IN Do("add_url", a, add_url(obj, a), FALSE)

AddBlog ==
    /\ remaining > 0
    /\ \E v \in UrlInputs :
           LET a == [url |-> v] IN Do("add_blog", a, add_blog(obj, a), FALSE)

AddLinkedin ==
    /\ remaining > 0
    /\ \E v \in UrlInputs :
           LET a == [url |-> v] IN Do("add_linkedin", a, add_linkedin(obj, a), FALSE)

AddTwitter ==
    /\ remaining > 0
    /\ \E v \in UrlInputs :
           LET a == [url |-> v] IN Do("add_twitter", a, add_twitter(obj, a), FALSE)

AddResearchField ==
    /\ remaining > 0
    /\ \E c \in CategoryInputs :
           LET a == [category |-> c]
           IN  Do("add_research_field", a, add_research_field(obj, a), FALSE)

AddInstitution ==
    /\ remaining > 0
    /\ \E i \in InstitutionInputs, sd \in StartDateInputs, ed \in EndDateInputs,
          rk \in RankInputs, rc \in RecordInputs, cu \in FlagInputs, cr \in FlagInputs :
           LET a == [institution |-> i, start_date |-> sd, end_date |-> ed, rank |-> rk,
                     record |-> rc, curated |-> cu, current |-> cr]
           IN  Do("add_institution", a, add_institution(obj, a), FALSE)

AddProject ==
    /\ remaining > 0
    /\ \E n \in ProjectInputs, rc \in RecordInputs, sd \in StartDateInputs,
          ed \in EndDateInputs, cu \in FlagInputs, cr \in FlagInputs :
           LET a == [name |-> n, record |-> rc, start_date |-> sd, end_date |-> ed,
                     curated |-> cu, current |-> cr]
           IN  Do("add_project", a, add_project(obj, a), FALSE)

AddAdvisor ==
    /\ remaining > 0
    /\ \E n \in AdvisorInputs, ids \in IdsInputs, dt \in DegreeInputs,
          rc \in RecordInputs, cu \in FlagInputs :
           LET a == [name |-> n, ids |-> ids, degree_type |-> dt, record |-> rc,
                     curated |-> cu]
           IN  Do("add_advisor", a, add_advisor(obj, a), FALSE)

AddComment ==
    /\ remaining > 0
    /\ \E c \in CommentInputs, src \in SourceInputs :
           LET a == [comment |-> c, source |-> src]
           IN  Do("add_comment", a, add_comment(obj, a), FALSE)

(*************************** specifications ********************************)
\* A builder started from an empty record: AuthorBuilder().
Init == Construct(EmptyMap, MaxCalls)

Next ==
    \/ SetName
    \/ SetDisplayName
    \/ AddNativeName
    \/ AddEmailAddress
    \/ SetStatus
    \/ AddUrl
    \/ AddBlog
    \/ AddLinkedin
    \/ AddTwitter
    \/ AddResearchField
    \/ AddInstitution
    \/ AddProject
    \/ AddAdvisor
    \/ AddComment

Spec == Init /\ [][Next]_vars

\* A builder started from an empty record on which only the name
\* operations are called.
InitName == Construct(EmptyMap, MaxNameCalls)

NextName ==
    \/ SetName
    \/ SetDisplayName
    \/ AddNativeName

SpecName == InitName /\ [][NextName]_vars

\* A builder constructed from a pre-existing record: AuthorBuilder(author).
InitSeed == \E o \in SeedRecords : Construct(o, MaxSeedCalls)

SpecSeed == InitSeed /\ [][Next]_vars

(************************* properties **************************************)
\* The values the specification calls empty.
IsEmptyValue(v) ==
    \/ v.t = "None"
    \/ v.t = "str" /\ v.s = ""
    \/ v.t = "list" /\ Len(v.items) = 0
    \/ v.t = "dict" /\ DOMAIN v.d = {}

\* The entries of field f of record o (none when the field is absent).
Items(o, f) == IF f \in DOMAIN o /\ o[f].t = "list" THEN o[f].items ELSE <<>>

\* Whether a call returned normally.
Returned(l) == l.exc = "none"

OptionalKeys == {"start_date", "end_date", "rank", "record"}

\* The optional parameters among ks that the caller supplied.
Supplied(a, ks) == {k \in ks \cap DOMAIN a : a[k] # None}

\* C1: after set_name, set_display_name and add_native_name, called in that
\* order on a builder started from an empty record, record["name"] is one
\* mapping holding value, preferred_name and native_names together.
C1_NameIsOneMapping ==
    ( /\ Len(hist) = 3
      /\ hist[1].op = "set_name"
      /\ hist[2].op = "set_display_name"
      /\ hist[3].op = "add_native_name" )
    => /\ Returned(last)
       /\ "name" \in DOMAIN obj
       /\ obj["name"].t = "dict"
       /\ {"value", "preferred_name", "native_names"} \subseteq DOMAIN obj["name"].d

\* C2: add_native_name(a) followed by add_native_name(b) leaves a name
\* mapping whose native_names ends with a, b, and is exactly [a, b] when
\* these are the first two native names.
C2_NativeNamesAccumulate ==
    LET n == Len(hist) IN
    ( /\ n >= 2
      /\ hist[n - 1].op = "add_native_name"
      /\ hist[n].op = "add_native_name" )
    => /\ Returned(last)
       /\ "name" \in DOMAIN obj
       /\ obj["name"].t = "dict"
       /\ "native_names" \in DOMAIN obj["name"].d
       /\ obj["name"].d["native_names"].t = "list"
       /\ LET nn == obj["name"].d["native_names"].items
          IN  /\ Len(nn) >= 2
              /\ nn[Len(nn) - 1] = hist[n - 1].args.name
              /\ nn[Len(nn)] = hist[n].args.name
              /\ (\A i \in 1..(n - 2) : hist[i].op # "add_native_name") => Len(nn) = 2

\* The affiliation entry the specification describes for the arguments a.
ExpectedInstitution(a) ==
    [k \in {"institution", "curated_relation", "current"} \cup Supplied(a, OptionalKeys) |->
        CASE k = "institution"      -> a.institution
          [] k = "curated_relation" -> a.curated
          [] k = "current"          -> a.current
          [] k = "start_date"       -> normalize_date(a.start_date)
          [] k = "end_date"         -> normalize_date(a.end_date)
          [] k = "rank"             -> a.rank
          [] k = "record"           -> a.record]

\* C3: for every combination of supplied and omitted start_date, end_date,
\* rank and record, add_institution appends exactly one entry to positions,
\* with the keys institution, curated_relation, current and exactly the
\* optional keys supplied.
C3_InstitutionEntry ==
    [][ last'.op = "add_institution"
        => /\ Returned(last')
           /\ Items(obj', "positions")
                = Append(Items(obj, "positions"), Dict(ExpectedInstitution(last'.args))) ]_vars

\* C4: add_project appends one entry to project_membership, built from the
\* project name, with start_date, end_date and record only when supplied and
\* with curated_relation and current always.
C4_ProjectEntry ==
    [][ last'.op = "add_project"
        => /\ Returned(last')
           /\ LET old == Items(obj, "project_membership")
                  new == Items(obj', "project_membership")
                  a == last'.args
              IN  /\ Len(new) = Len(old) + 1
                  /\ SubSeq(new, 1, Len(old)) = old
                  /\ new[Len(new)].t = "dict"
                  /\ LET e == new[Len(new)].d
                     IN  /\ \E k \in DOMAIN e : e[k] = a.name
                         /\ DOMAIN e \cap OptionalKeys = Supplied(a, OptionalKeys)
                         /\ {"curated_relation", "current"} \subseteq DOMAIN e
                         /\ e["curated_relation"] = a.curated
                         /\ e["current"] = a.current ]_vars

\* C5: no operation of the builder raises, whatever its arguments and
\* whatever state, reached from an empty record, it is called in.
C5_NoOperationRaises == Returned(last)

\* C6: _append_to with an empty element leaves the whole record unchanged,
\* for every field, whether the field is present or absent: in every step
\* that hands it one, and for every field and empty value in every record
\* reached (each is the initial one or the result of a step that changed it).
C6_EmptyElementIsNoOp ==
    [][ /\ (last'.call # NoCall /\ IsEmptyValue(last'.call[2]))
            => (obj' = obj /\ Returned(last'))
        /\ (obj' # obj \/ last.op = "__init__")
            => \A f \in Fields, e \in {None, Str(""), List(<<>>), Dict(EmptyMap)} :
                   LET r == _append_to(obj', f, e) IN r.obj = obj' /\ r.exc = "none" ]_vars

\* C6 witness: an empty sequence was handed to _append_to for a field that
\* is present.
C6_Witness ==
    /\ last.call # NoCall
    /\ last.call[2] = List(<<>>)
    /\ last.call[1] \in DOMAIN obj

\* C7: from an empty record, every field that received N non-empty elements
\* holds exactly these N elements in call order (a singleton after the
\* first), equal elements included; a field that received none is absent;
\* and one more non-empty element handed to _append_to for any field would
\* be placed after them.
C7_AppendsInCallOrder ==
    /\ \A f \in Fields :
           IF log[f] = <<>> THEN f \notin DOMAIN obj
           ELSE f \in DOMAIN obj /\ obj[f] = List(log[f])
    /\ \A f \in Fields, e \in {Str("x"), Dict(Put(EmptyMap, "value", None))} :
           LET r == _append_to(obj, f, e)
           IN  /\ r.exc = "none"
               /\ DOMAIN r.obj = DOMAIN obj \cup {f}
               /\ r.obj[f] = List(Append(log[f], e))

\* C7 witness: two calls with the same institution gave two equal entries.
C7_Witness ==
    /\ Len(log["positions"]) = 2
    /\ log["positions"][1] = log["positions"][2]
    /\ Len(Items(obj, "positions")) = 2

\* The field an operation targets (section 3 of the specification).
TargetField(op) ==
    CASE op \in {"set_name", "set_display_name", "add_native_name"} -> "name"
      [] op = "add_email_address"            -> "email_addresses"
      [] op = "set_status"                   -> "status"
      [] op \in {"add_url", "add_blog"}      -> "urls"
      [] op \in {"add_linkedin", "add_twitter"} -> "ids"
      [] op = "add_research_field"           -> "arxiv_categories"
      [] op = "add_institution"              -> "positions"
      [] op = "add_project"                  -> "project_membership"
      [] op = "add_advisor"                  -> "advisors"
      [] op = "add_comment"                  -> "_private_notes"

\* The raw value of the operations that append their argument as it is.
ScalarArgument(l) ==
    CASE l.op = "add_email_address"  -> l.args.email
      [] l.op = "set_status"         -> l.args.status
      [] l.op = "add_research_field" -> l.args.category
      [] OTHER                       -> Str("-")

\* The call l returned normally and was given a fact to add.
AddsFact(l) == l.op # "__init__" /\ Returned(l) /\ ~IsEmptyValue(ScalarArgument(l))

\* Record o2 is record o with one entry added at the end of the sequence
\* field f, or, when name is a mapping, at the end of its native_names.
OneEntryAdded(o, o2, f) ==
    /\ DOMAIN o2 = DOMAIN o \cup {f}
    /\ \A g \in DOMAIN o \ {f} : o2[g] = o[g]
    /\ IF f \in DOMAIN o /\ o[f].t = "dict"
       THEN /\ o2[f].t = "dict"
            /\ DOMAIN o2[f].d = DOMAIN o[f].d
            /\ \A k \in DOMAIN o[f].d \ {"native_names"} : o2[f].d[k] = o[f].d[k]
            /\ "native_names" \in DOMAIN o[f].d
            /\ o2[f].d["native_names"].t = "list"
            /\ Len(o2[f].d["native_names"].items) = Len(o[f].d["native_names"].items) + 1
            /\ SubSeq(o2[f].d["native_names"].items, 1, Len(o[f].d["native_names"].items))
                 = o[f].d["native_names"].items
       ELSE /\ o2[f].t = "list"
            /\ Len(o2[f].items) = Len(Items(o, f)) + 1
            /\ SubSeq(o2[f].items, 1, Len(Items(o, f))) = Items(o, f)
            /\ ~IsEmptyValue(o2[f].items[Len(o2[f].items)])

\* C8: on a builder constructed from a pre-existing record, a call that adds
\* a fact leaves every other field unchanged, keeps the prior entries of the
\* targeted field as a prefix and adds exactly one entry at its end.
C8_PriorContentPreserved ==
    [][ AddsFact(last') => OneEntryAdded(obj, obj', TargetField(last'.op)) ]_vars

\* C8 witness: an email address was added to a seeded record that already
\* held one, next to its positions.
C8_Witness ==
    /\ last.op = "add_email_address"
    /\ AddsFact(last)
    /\ Len(Items(obj, "email_addresses")) = 2
    /\ Len(Items(obj, "positions")) = 1

\* C9: from an empty record, every field present on the record is a
\* non-empty sequence none of whose entries is an empty value.
C9_FieldsLazyAndNonEmpty ==
    \A f \in DOMAIN obj :
        /\ obj[f].t = "list"
        /\ Len(obj[f].items) >= 1
        /\ \A i \in 1..Len(obj[f].items) : ~IsEmptyValue(obj[f].items[i])

\* C9 witness: an empty string was offered for a field that stays absent
\* while another field is present.
C9_Witness ==
    /\ last.call # NoCall
    /\ last.call[2] = Str("")
    /\ last.call[1] \notin DOMAIN obj
    /\ DOMAIN obj # {}

\* C10: a call that ends in an error leaves the record as it was.
C10_ErrorLeavesRecordUnchanged ==
    [][ ~Returned(last') => obj' = obj ]_vars

\* C10 witness: add_institution raised on a record that holds positions.
C10_Witness ==
    /\ last.op = "add_institution"
    /\ ~Returned(last)
    /\ Len(Items(obj, "positions")) >= 1

====
